---- MODULE Spec2Model ----
(***************************************************************************)
(* Model of the two scripts of the curlee repository:                      *)
(*   scripts/generate_correct_samples.py  (gen_expr, main)                 *)
(*   scripts/benchmark.py                 (iter_samples, main)             *)
(* Text is a sequence of one-character strings, so that formatting,        *)
(* joining, trimming and sorting are computed the way the scripts do it.   *)
(***************************************************************************)
EXTENDS Integers, Sequences, FiniteSets, TLC

VARIABLES
    \* gen_expr applied to an arbitrary random source (SpecExpr)
    e_pc, e_depth, e_rng, e_out,
    \* generate_correct_samples.main (SpecGen)
    g_pc, count, seed, rng, idx, samples, fs, training, written, history,
    \* the naming loop of generate_correct_samples.main at large counts (SpecNames)
    n_pc, n_count, n_idx, n_name, n_prev, n_files,
    \* benchmark.main (SpecBench)
    b_pc, b_fs, curlee_exists, runs, dirs, b_samples, run_i, sample_i,
    clock, start, total, child, invocations, stdout, exit_status

e_vars == <<e_pc, e_depth, e_rng, e_out>>
g_vars == <<g_pc, count, seed, rng, idx, samples, fs, training, written, history>>
n_vars == <<n_pc, n_count, n_idx, n_name, n_prev, n_files>>
b_vars == <<b_pc, b_fs, curlee_exists, runs, dirs, b_samples, run_i, sample_i,
            clock, start, total, child, invocations, stdout, exit_status>>
vars == <<e_vars, g_vars, n_vars, b_vars>>

----------------------------------------------------------------------------
(* Bounds of the model *)

\* resolution of the random source: it has Modulus states, random() is s/Modulus
Modulus == 64
\* largest depth bound gen_expr is applied to in SpecExpr
MaxDepth == 3
\* largest --count and --seed of a Generator run, and number of runs in a row
MaxCount == 2
MaxSeed == 1
MaxGenRuns == 2

(* Program constants *)

\* rng.random() < 0.4, in tenths
TerminateTenths == 4
\* rng.random() < 0.5, in tenths
ParenTenths == 5
\* rng.randint(0, 1000)
LiteralMax == 1000
\* gen_expr(rng, depth=3)
GenDepth == 3
\* {idx:04d}
NameWidth == 4

----------------------------------------------------------------------------
(* Text *)

NL == "\n"

Digits == <<"0", "1", "2", "3", "4", "5", "6", "7", "8", "9">>

\* str(n) of a non-negative int: its decimal digits
RECURSIVE Str(_)
Str(n) == IF n < 10 THEN <<Digits[n + 1]>>
          ELSE Str(n \div 10) \o <<Digits[(n % 10) + 1]>>

\* the characters the scripts write or compare, in code-point order
Alphabet == <<NL, " ", "#", "(", ")", "+", "-", ".",
              "0", "1", "2", "3", "4", "5", "6", "7", "8", "9",
              ";", "=", ">", "C", "I", "_",
              "a", "b", "c", "d", "e", "f", "g", "h", "i", "j", "k", "l", "m",
              "n", "o", "p", "q", "r", "s", "t", "u", "v", "w", "x", "y", "z",
              "{", "}">>

Ord(c) == CHOOSE i \in 1..Len(Alphabet) : Alphabet[i] = c

\* a < b for str: lexicographic by code point, a proper prefix first
RECURSIVE StrLess(_, _)
StrLess(a, b) ==
    IF Len(b) = 0 THEN FALSE
    ELSE IF Len(a) = 0 THEN TRUE
    ELSE IF a[1] = b[1] THEN StrLess(Tail(a), Tail(b))
    ELSE Ord(a[1]) < Ord(b[1])

IsSpace(c) == c = " " \/ c = NL

SetMax(S) == CHOOSE x \in S : \A y \in S : y <= x
SetMin(S) == CHOOSE x \in S : \A y \in S : x <= y

\* the positions of a text that hold no whitespace
Inked(t) == {i \in 1..Len(t) : ~IsSpace(t[i])}

\* str.rstrip(): trailing whitespace removed
RStrip(t) == IF Inked(t) = {} THEN <<>> ELSE SubSeq(t, 1, SetMax(Inked(t)))

\* str.strip(): leading and trailing whitespace removed
Strip(t) == IF Inked(t) = {} THEN <<>>
            ELSE SubSeq(t, SetMin(Inked(t)), SetMax(Inked(t)))

\* sep.join(parts)
RECURSIVE Join(_, _)
Join(sep, parts) ==
    IF Len(parts) = 0 THEN <<>>
    ELSE IF Len(parts) = 1 THEN parts[1]
    ELSE parts[1] \o sep \o Join(sep, Tail(parts))

EndsWith(t, suffix) ==
    /\ Len(t) >= Len(suffix)
    /\ SubSeq(t, Len(t) - Len(suffix) + 1, Len(t)) = suffix

----------------------------------------------------------------------------
(* random.Random: a deterministic source. Its state is s; every draw steps *)
(* s and derives the value from the new s. log is the values drawn so far. *)

Step(s) == (21 * s + 11) % Modulus

\* random.Random(seed)
Random(sd) == [s |-> sd % Modulus, log |-> <<>>]

\* rng.random(): a value in [0, 1), here the numerator of s/Modulus
RngRandom(r) ==
    LET s2 == Step(r.s)
    IN  [val |-> s2, rng |-> [s |-> s2, log |-> Append(r.log, s2)]]

\* x/Modulus < tenths/10
Below(x, tenths) == 10 * x < tenths * Modulus

\* rng.randint(a, b): a value in [a, b], both ends included
RngRandint(r, a, b) ==
    LET s2 == Step(r.s)
        v  == a + (s2 * (b - a)) \div (Modulus - 1)
    IN  [val |-> v, rng |-> [s |-> s2, log |-> Append(r.log, v)]]

----------------------------------------------------------------------------
(* generate_correct_samples.gen_expr *)

DepthExhaustedStrict(depth) == depth < 0

\* depth <= 0
DepthExhausted(depth) == depth <= 0

\* return str(rng.randint(0, 1000))
Literal(r) ==
    LET d == RngRandint(r, 0, LiteralMax)
    IN  [expr |-> Str(d.val), rng |-> d.rng, levels |-> 0]

Max(a, b) == IF a >= b THEN a ELSE b

\* gen_expr(rng, depth): the text returned, the random source afterwards, and
\* the number of nested additions the call built (0 for a literal)
RECURSIVE gen_expr(_, _)
gen_expr(r, depth) ==
    IF DepthExhausted(depth) THEN Literal(r)
    ELSE
      LET d1 == RngRandom(r)
      IN  IF Below(d1.val, TerminateTenths) THEN Literal(d1.rng)
          ELSE
            LET left  == gen_expr(d1.rng, depth - 1)
                right == gen_expr(left.rng, depth - 1)
                expr  == left.expr \o <<" ", "+", " ">> \o right.expr
                d2    == RngRandom(right.rng)
                lv    == 1 + Max(left.levels, right.levels)
            IN  IF Below(d2.val, ParenTenths)
                THEN [expr |-> <<"(">> \o expr \o <<")">>, rng |-> d2.rng, levels |-> lv]
                ELSE [expr |-> expr, rng |-> d2.rng, levels |-> lv]

NoExpr == [expr |-> <<>>, rng |-> Random(0), levels |-> 0]

\* the idle values of the variables of gen_expr's specification
ExprIdle ==
    /\ e_pc = "idle" /\ e_depth = 0 /\ e_rng = Random(0) /\ e_out = NoExpr

\* any random source state, any depth bound
ExprInit ==
    /\ e_pc = "call"
    /\ e_depth \in 0..MaxDepth
    /\ e_rng \in {[s |-> s, log |-> <<>>] : s \in 0..(Modulus - 1)}
    /\ e_out = NoExpr

\* out = gen_expr(rng, depth)
ExprCall ==
    /\ e_pc = "call"
    /\ e_out' = gen_expr(e_rng, e_depth)
    /\ e_pc' = "returned"
    /\ UNCHANGED <<e_depth, e_rng>>
    /\ UNCHANGED <<g_vars, n_vars, b_vars>>

----------------------------------------------------------------------------
(* generate_correct_samples.main *)

FnLine == <<"f", "n", " ", "m", "a", "i", "n", "(", ")", " ", "-", ">", " ",
            "I", "n", "t", " ", "{">>
ReturnPrefix == <<" ", " ", "r", "e", "t", "u", "r", "n", " ">>
NamePrefix == <<"s", "a", "m", "p", "l", "e", "_">>
Suffix == <<".", "c", "u", "r", "l", "e", "e">>
HeaderTitle == <<"#", " ", "C", "u", "r", "l", "e", "e", " ", "c", "o", "r", "r",
                 "e", "c", "t", "_", "s", "a", "m", "p", "l", "e", "s", " ",
                 "d", "a", "t", "a", "s", "e", "t">>
HeaderSeed == <<"#", " ", "s", "e", "e", "d", "=">>
HeaderCount == <<"#", " ", "c", "o", "u", "n", "t", "=">>
Separator == <<NL, "-", "-", "-", NL>>

\* "\n".join(["fn main() -> Int {", f"  return {expr};", "}", ""])
Program(expr) ==
    Join(<<NL>>, <<FnLine, ReturnPrefix \o expr \o <<";">>, <<"}">>, <<>>>>)

RECURSIVE Zeros(_)
Zeros(n) == IF n <= 0 THEN <<>> ELSE <<"0">> \o Zeros(n - 1)

\* format(n, "0<width>d"): at least width digits, zero-filled on the left
ZeroPad(n, width) == Zeros(width - Len(Str(n))) \o Str(n)

SampleNameUnpadded(i) == NamePrefix \o Str(i) \o Suffix

\* f"sample_{idx:04d}.curlee"
SampleName(i) == NamePrefix \o ZeroPad(i, NameWidth) \o Suffix

\* f"# Curlee correct_samples dataset\n# seed={args.seed}\n# count={args.count}\n"
Header(sd, c) ==
    HeaderTitle \o <<NL>> \o HeaderSeed \o Str(sd) \o <<NL>>
      \o HeaderCount \o Str(c) \o <<NL>>

\* header + "\n---\n".join(samples) + "\n"
Corpus(sd, c, progs) == Header(sd, c) \o Join(Separator, progs) \o <<NL>>

NewRngFromRunNumber(sd) == Random(Len(history))

\* rng = random.Random(args.seed)
NewRng(sd) == Random(sd)

\* the output directory: whether it exists, and its files by name
NoDir == [exists |-> FALSE, files |-> <<>>]

NotesName == <<"n", "o", "t", "e", "s", ".", "t", "x", "t">>
OldText == <<"o", "l", "d", NL>>

\* Path.write_text(text) into a directory: creates or replaces that one file
WriteFile(dir, name, text) ==
    [dir EXCEPT !.files =
        [n \in (DOMAIN dir.files) \cup {name} |->
            IF n = name THEN text ELSE dir.files[n]]]

MkdirFresh(dir) == [exists |-> TRUE, files |-> <<>>]

\* out_dir.mkdir(parents=True, exist_ok=True)
Mkdir(dir) == [dir EXCEPT !.exists = TRUE]

GenIdle ==
    /\ g_pc = "idle" /\ count = 0 /\ seed = 0 /\ rng = Random(0) /\ idx = 0
    /\ samples = <<>> /\ fs = NoDir /\ training = <<>>
    /\ written = <<>> /\ history = <<>>

\* before the first run: the output directory is absent or holds a file of
\* somebody else, the corpus path is absent or holds old content
GenInit ==
    /\ g_pc = "idle" /\ count = 0 /\ seed = 0 /\ rng = Random(0) /\ idx = 0
    /\ samples = <<>>
    /\ fs \in {NoDir, [exists |-> TRUE, files |-> (NotesName :> OldText)]}
    /\ training \in {<<>>, OldText}
    /\ written = <<>> /\ history = <<>>

\* lines 22-33: parse the arguments, seed the source, make the directory
GenStart(c, sd) ==
    /\ g_pc = "idle"
    /\ Len(history) < MaxGenRuns
    /\ count' = c /\ seed' = sd
    /\ rng' = NewRng(sd)
    /\ fs' = Mkdir(fs)
    /\ samples' = <<>>
    /\ idx' = 1
    /\ written' = <<>>
    /\ g_pc' = "loop"
    /\ UNCHANGED <<training, history>>
    /\ UNCHANGED <<e_vars, n_vars, b_vars>>

\* lines 34-46: one iteration of for idx in range(1, args.count + 1)
GenIter ==
    /\ g_pc = "loop"
    /\ idx <= count
    /\ LET e       == gen_expr(rng, GenDepth)
           program == Program(e.expr)
           name    == SampleName(idx)
       IN  /\ fs' = WriteFile(fs, name, program)
           /\ samples' = Append(samples, Strip(program))
           /\ rng' = e.rng
           /\ written' = Append(written, [idx |-> idx, name |-> name, text |-> program])
    /\ idx' = idx + 1
    /\ UNCHANGED <<g_pc, count, seed, training, history>>
    /\ UNCHANGED <<e_vars, n_vars, b_vars>>

\* lines 48-50: the loop is over; write the corpus file and return 0
GenFinish ==
    /\ g_pc = "loop"
    /\ idx > count
    /\ training' = Corpus(seed, count, samples)
    /\ history' = Append(history,
          [seed |-> seed, count |-> count, written |-> written,
           corpus |-> training', draws |-> rng.log, before |-> training])
    /\ g_pc' = "idle"
    /\ UNCHANGED <<count, seed, rng, idx, samples, fs, written>>
    /\ UNCHANGED <<e_vars, n_vars, b_vars>>

GenNext ==
    \/ \E c \in 0..MaxCount, sd \in 0..MaxSeed : GenStart(c, sd)
    \/ GenIter
    \/ GenFinish

----------------------------------------------------------------------------
(* The loop of generate_correct_samples.main as far as the names it writes: *)
(* the same loop with the file contents left out, so that it can be run to  *)
(* counts beyond the width of the index field.                              *)

MaxNameCount == 3
LargeCount == 10001

NamesIdle ==
    /\ n_pc = "idle" /\ n_count = 0 /\ n_idx = 0
    /\ n_name = <<>> /\ n_prev = <<>> /\ n_files = 0

\* n_name and n_prev are the names of the last two write_text calls,
\* n_files the number of write_text calls so far
NamesInit ==
    /\ n_pc = "loop"
    /\ n_count \in (0..MaxNameCount) \cup {LargeCount}
    /\ n_idx = 1
    /\ n_name = <<>> /\ n_prev = <<>> /\ n_files = 0

\* lines 34, 44, 45: name the file of index idx and write it
NamesIter ==
    /\ n_pc = "loop"
    /\ n_idx <= n_count
    /\ n_name' = SampleName(n_idx)
    /\ n_prev' = n_name
    /\ n_files' = n_files + 1
    /\ n_idx' = n_idx + 1
    /\ UNCHANGED <<n_pc, n_count>>
    /\ UNCHANGED <<e_vars, g_vars, b_vars>>

\* line 34: range(1, args.count + 1) is exhausted
NamesFinish ==
    /\ n_pc = "loop"
    /\ n_idx > n_count
    /\ n_pc' = "done"
    /\ UNCHANGED <<n_count, n_idx, n_name, n_prev, n_files>>
    /\ UNCHANGED <<e_vars, g_vars, b_vars>>

----------------------------------------------------------------------------
(* benchmark.iter_samples *)

\* d.glob("*.curlee"): the names in the directory that end in .curlee;
\* a directory that does not exist yields nothing
Glob(dir) ==
    IF dir.exists THEN {n \in DOMAIN dir.files : EndsWith(n, Suffix)} ELSE {}

RECURSIVE Sorted(_)
RECURSIVE SortedReverse(_)
SortedReverse(names) ==
    IF names = {} THEN <<>>
    ELSE LET last == CHOOSE n \in names : \A m \in names \ {n} : StrLess(m, n)
         IN  <<last>> \o SortedReverse(names \ {last})

\* sorted(names): ascending, lexicographic
Sorted(names) ==
    IF names = {} THEN <<>>
    ELSE LET first == CHOOSE n \in names : \A m \in names \ {n} : StrLess(n, m)
         IN  <<first>> \o Sorted(names \ {first})

\* the paths d / name for the names in order
PathsIn(d, names) == [i \in 1..Len(names) |-> [dir |-> d, name |-> names[i]]]

\* iter_samples(dirs), reading the file system filesys (path -> directory)
RECURSIVE iter_samples(_, _)
iter_samples(filesys, ds) ==
    IF Len(ds) = 0 THEN <<>>
    ELSE PathsIn(ds[1], Sorted(Glob(filesys[ds[1]])))
           \o iter_samples(filesys, Tail(ds))

----------------------------------------------------------------------------
(* benchmark.main *)

\* largest --runs, and the longest one invocation takes, in clock ticks
MaxRuns == 2
MaxDur == 2

RunDir == "tests/run"
MoreDir == "more"

A9 == <<"a", "9", ".", "c", "u", "r", "l", "e", "e">>
A10 == <<"a", "1", "0", ".", "c", "u", "r", "l", "e", "e">>
B1 == <<"b", ".", "c", "u", "r", "l", "e", "e">>

DirOf(names) == [exists |-> TRUE, files |-> [n \in names |-> OldText]]

NotExited == [code |-> -1, message |-> "", traceback |-> FALSE]

BenchIdle ==
    /\ b_pc = "idle" /\ b_fs = <<>> /\ curlee_exists = FALSE /\ runs = 0
    /\ dirs = <<>> /\ b_samples = <<>> /\ run_i = 0 /\ sample_i = 0
    /\ clock = 0 /\ start = 0 /\ total = 0 /\ child = {}
    /\ invocations = <<>> /\ stdout = <<>> /\ exit_status = NotExited

\* the process is started: the arguments are given, the directories hold
\* what they hold, nothing has run
BenchInit ==
    /\ b_pc = "start"
    /\ \E d1 \in {DirOf({NotesName}), DirOf({A9, A10, NotesName})},
          d2 \in {NoDir, DirOf({B1})} :
          b_fs = (RunDir :> d1) @@ (MoreDir :> d2)
    /\ curlee_exists \in BOOLEAN
    /\ runs \in 0..MaxRuns
    /\ dirs \in {<<>>, <<RunDir>>, <<RunDir, MoreDir>>, <<MoreDir, RunDir>>}
    /\ b_samples = <<>> /\ run_i = 0 /\ sample_i = 0
    /\ clock = 0 /\ start = 0 /\ total = 0 /\ child = {}
    /\ invocations = <<>> /\ stdout = <<>> /\ exit_status = NotExited

\* not curlee.exists()
BinaryMissing(exists) == ~exists

NoSamplesIgnored(s) == FALSE

\* not samples
NoSamples(s) == Len(s) = 0

\* raise SystemExit(message): the message on stderr, exit code 1, no traceback
SystemExit(message) == [code |-> 1, message |-> message, traceback |-> FALSE]

\* an exception nobody catches: a traceback on stderr, exit code 1
Uncaught(exception) == [code |-> 1, message |-> exception, traceback |-> TRUE]

\* return 0 from main
ExitOk == [code |-> 0, message |-> "", traceback |-> FALSE]

\* lines 25-33: the binary is looked up, the samples are discovered
BenchConfigure ==
    /\ b_pc = "start"
    /\ IF BinaryMissing(curlee_exists)
       THEN /\ exit_status' = SystemExit("curlee binary not found")
            /\ b_pc' = "exited"
            /\ UNCHANGED <<b_samples, total>>
       ELSE LET found == iter_samples(b_fs, dirs)
            IN  /\ b_samples' = found
                /\ IF NoSamples(found)
                   THEN /\ exit_status' = SystemExit("no samples found")
                        /\ b_pc' = "exited"
                        /\ UNCHANGED total
                   ELSE /\ total' = 0
                        /\ b_pc' = "run_loop"
                        /\ UNCHANGED exit_status
    /\ UNCHANGED <<b_fs, curlee_exists, runs, dirs, run_i, sample_i, clock,
                   start, child, invocations, stdout>>
    /\ UNCHANGED <<e_vars, g_vars, n_vars>>

\* lines 34-35: the next of range(args.runs); start = time.perf_counter()
BenchRunStart ==
    /\ b_pc = "run_loop"
    /\ run_i < runs
    /\ start' = clock
    /\ sample_i' = 1
    /\ b_pc' = "sample_loop"
    /\ UNCHANGED <<b_fs, curlee_exists, runs, dirs, b_samples, run_i, clock,
                   total, child, invocations, stdout, exit_status>>
    /\ UNCHANGED <<e_vars, g_vars, n_vars>>

\* line 37, first half: subprocess.run starts [curlee, "check", sample]
BenchSpawn ==
    /\ b_pc = "sample_loop"
    /\ sample_i <= Len(b_samples)
    /\ child' = child \cup {sample_i}
    /\ invocations' = Append(invocations,
          [run |-> run_i + 1, pos |-> sample_i, argv |-> <<"check", b_samples[sample_i]>>,
           before |-> Cardinality(child), exited |-> FALSE, rc |-> 0])
    /\ b_pc' = "waiting"
    /\ UNCHANGED <<b_fs, curlee_exists, runs, dirs, b_samples, run_i, sample_i,
                   clock, start, total, stdout, exit_status>>
    /\ UNCHANGED <<e_vars, g_vars, n_vars>>

CheckIgnored(rc) == FALSE

\* check=True: a non-zero return code raises CalledProcessError
CheckFails(rc) == rc # 0

\* line 37, second half: subprocess.run waits for the child, which exits with
\* rc after dur ticks
BenchWait(rc, dur) ==
    /\ b_pc = "waiting"
    /\ child' = child \ {sample_i}
    /\ clock' = clock + dur
    /\ invocations' = [invocations EXCEPT ![Len(invocations)].exited = TRUE,
                                          ![Len(invocations)].rc = rc]
    /\ IF CheckFails(rc)
       THEN /\ exit_status' = Uncaught("CalledProcessError")
            /\ b_pc' = "exited"
            /\ UNCHANGED sample_i
       ELSE /\ sample_i' = sample_i + 1
            /\ b_pc' = "sample_loop"
            /\ UNCHANGED exit_status
    /\ UNCHANGED <<b_fs, curlee_exists, runs, dirs, b_samples, run_i, start,
                   total, stdout>>
    /\ UNCHANGED <<e_vars, g_vars, n_vars>>

\* line 38: the pass is over; total += time.perf_counter() - start
BenchRunEnd ==
    /\ b_pc = "sample_loop"
    /\ sample_i > Len(b_samples)
    /\ total' = total + (clock - start)
    /\ run_i' = run_i + 1
    /\ b_pc' = "run_loop"
    /\ UNCHANGED <<b_fs, curlee_exists, runs, dirs, b_samples, sample_i, clock,
                   start, child, invocations, stdout, exit_status>>
    /\ UNCHANGED <<e_vars, g_vars, n_vars>>

DivisionNeverFails(r) == FALSE

\* total / args.runs raises ZeroDivisionError when args.runs is 0
DivisionFails(r) == r = 0

\* lines 40-42: the runs are over; average, print, return 0.
\* The average is kept as the fraction total/runs of ticks.
BenchReport ==
    /\ b_pc = "run_loop"
    /\ run_i >= runs
    /\ IF DivisionFails(runs)
       THEN /\ exit_status' = Uncaught("ZeroDivisionError")
            /\ UNCHANGED stdout
       ELSE /\ stdout' = Append(stdout,
                  [samples |-> Len(b_samples), runs |-> runs, avg |-> <<total, runs>>])
            /\ exit_status' = ExitOk
    /\ b_pc' = "exited"
    /\ UNCHANGED <<b_fs, curlee_exists, runs, dirs, b_samples, run_i, sample_i,
                   clock, start, total, child, invocations>>
    /\ UNCHANGED <<e_vars, g_vars, n_vars>>

BenchNext ==
    \/ BenchConfigure
    \/ BenchRunStart
    \/ BenchSpawn
    \/ \E rc \in {0, 1}, dur \in 1..MaxDur : BenchWait(rc, dur)
    \/ BenchRunEnd
    \/ BenchReport

----------------------------------------------------------------------------
(* Specifications *)

\* gen_expr on every random source state and depth bound
InitExpr == ExprInit /\ GenIdle /\ NamesIdle /\ BenchIdle
NextExpr == ExprCall
SpecExpr == InitExpr /\ [][NextExpr]_vars

\* runs of the Generator, one after the other, into the same directory
InitGen == GenInit /\ ExprIdle /\ NamesIdle /\ BenchIdle
SpecGen == InitGen /\ [][GenNext]_vars

\* the naming loop of the Generator
InitNames == NamesInit /\ ExprIdle /\ GenIdle /\ BenchIdle
NextNames == NamesIter \/ NamesFinish
SpecNames == InitNames /\ [][NextNames]_vars

\* one execution of the Runner
InitBench == BenchInit /\ ExprIdle /\ GenIdle /\ NamesIdle
SpecBench == InitBench /\ [][BenchNext]_vars

Spec == SpecGen

----------------------------------------------------------------------------
(* Reading texts back, for the properties below *)

IsDigit(c) == \E i \in 1..10 : Digits[i] = c

DigitValue(c) == (CHOOSE i \in 1..10 : Digits[i] = c) - 1

\* the number a text of decimal digits denotes
RECURSIVE ParseInt(_)
ParseInt(t) == IF Len(t) = 0 THEN 0
               ELSE 10 * ParseInt(SubSeq(t, 1, Len(t) - 1)) + DigitValue(t[Len(t)])

AllDigits(t) == Len(t) > 0 /\ \A i \in 1..Len(t) : IsDigit(t[i])

\* the lines of a text
Split(t) ==
    LET breaks == {0, Len(t) + 1} \cup {i \in 1..Len(t) : t[i] = NL}
        brk(k) == CHOOSE b \in breaks : Cardinality({x \in breaks : x < b}) = k - 1
    IN  [k \in 1..(Cardinality(breaks) - 1) |->
            SubSeq(t, brk(k) + 1, brk(k + 1) - 1)]

StartsWith(t, prefix) ==
    /\ Len(t) >= Len(prefix)
    /\ SubSeq(t, 1, Len(prefix)) = prefix

\* the integer literals of a text, left to right
Literals(t) ==
    LET starts == {i \in 1..Len(t) : IsDigit(t[i]) /\ (i = 1 \/ ~IsDigit(t[i - 1]))}
        ends   == {i \in 1..Len(t) : IsDigit(t[i]) /\ (i = Len(t) \/ ~IsDigit(t[i + 1]))}
        nth(S, k) == CHOOSE x \in S : Cardinality({y \in S : y < x}) = k - 1
    IN  [k \in 1..Cardinality(starts) |-> ParseInt(SubSeq(t, nth(starts, k), nth(ends, k)))]

CountChar(t, c) == Cardinality({i \in 1..Len(t) : t[i] = c})

\* the deepest nesting of parentheses in a text
ParenDepth(t) ==
    LET open(i) == CountChar(SubSeq(t, 1, i), "(") - CountChar(SubSeq(t, 1, i), ")")
    IN  SetMax({0} \cup {open(i) : i \in 1..Len(t)})

SeparatorLine == <<"-", "-", "-">>

CountLines(t, line) ==
    LET ls == Split(t) IN Cardinality({i \in 1..Len(ls) : ls[i] = line})

\* the value a "# count=<n>" line of a text declares (-1 when there is none)
DeclaredCount(t) ==
    LET ls == Split(t)
        at == {i \in 1..Len(ls) : StartsWith(ls[i], HeaderCount)}
    IN  IF at = {} THEN -1
        ELSE LET i == CHOOSE j \in at : TRUE
             IN  ParseInt(SubSeq(ls[i], Len(HeaderCount) + 1, Len(ls[i])))

----------------------------------------------------------------------------
(* C1 *)

\* the corpus text the claim describes for a finished run h
ClaimedCorpus(h) ==
    Header(h.seed, h.count) \o SeparatorLine \o <<NL>>
      \o Join(Separator, [i \in 1..Len(h.written) |-> Strip(h.written[i].text)])

\* C1: for every seed and every count >= 1, the corpus file of a finished run
\* is the 3-line header, then a line "---", then the trimmed programs joined
\* by "\n---\n"; the number of "---" lines, one before every program, is count.
C1_CorpusSeparatorBeforeEveryProgram ==
    \A k \in 1..Len(history) :
        LET h == history[k]
        IN  h.count >= 1 =>
              /\ RStrip(h.corpus) = RStrip(ClaimedCorpus(h))
              /\ CountLines(h.corpus, SeparatorLine) = h.count

----------------------------------------------------------------------------
(* C2 *)

\* C2: every literal leaf of the expression gen_expr returns, for any random
\* source state and any depth, is an integer n with 0 <= n < 1000.
C2_LiteralBelowThousand ==
    e_pc = "returned" =>
        LET ls == Literals(e_out.expr)
        IN  \A i \in 1..Len(ls) : 0 <= ls[i] /\ ls[i] < LiteralMax

----------------------------------------------------------------------------
(* C3 *)

\* the first count whose index does not fit the width of the index field
WidthLimit == 10 ^ NameWidth

\* name is "sample_", then i as exactly NameWidth digits, then ".curlee"
IsFourDigitName(name, i) ==
    LET from == Len(NamePrefix) + 1
        to   == Len(NamePrefix) + NameWidth
    IN  /\ Len(name) = to + Len(Suffix)
        /\ SubSeq(name, 1, Len(NamePrefix)) = NamePrefix
        /\ SubSeq(name, to + 1, Len(name)) = Suffix
        /\ AllDigits(SubSeq(name, from, to))
        /\ ParseInt(SubSeq(name, from, to)) = i

\* the index of the file written last
LastIdx == n_idx - 1

\* one file per index 1..count, written in increasing index order
OneFilePerIndex ==
    /\ n_files = LastIdx
    /\ LastIdx <= n_count
    /\ (n_pc = "done" => n_files = n_count)

\* C3 as stated: for every count >= 1 exactly count files are written, one per
\* index 1..count in increasing order; the file of index i is named sample_,
\* i as exactly 4 digits, .curlee; the names strictly increase with the index
\* (so no two indices share one).
C3_NamesFourDigitsForEveryCount ==
    /\ OneFilePerIndex
    /\ (LastIdx >= 1 => IsFourDigitName(n_name, LastIdx))
    /\ (LastIdx >= 2 => StrLess(n_prev, n_name))

\* C3 amended: the same for every count from 1 to 9999, that is for every
\* index below 10^4; one file per index holds for every count.
C3_NamesFourDigitsUpTo9999 ==
    /\ OneFilePerIndex
    /\ (LastIdx >= 1 /\ LastIdx < WidthLimit => IsFourDigitName(n_name, LastIdx))
    /\ (LastIdx >= 2 /\ LastIdx < WidthLimit => StrLess(n_prev, n_name))

\* the file of the last four-digit index has been written, after its predecessor
C3_Witness ==
    /\ LastIdx = WidthLimit - 1
    /\ IsFourDigitName(n_name, LastIdx)
    /\ IsFourDigitName(n_prev, LastIdx - 1)

----------------------------------------------------------------------------
(* C8 *)

RECURSIVE Pow2(_)
Pow2(n) == IF n <= 0 THEN 1 ELSE 2 * Pow2(n - 1)

\* C8: for every random source state and every depth bound D >= 0, what
\* gen_expr returns (every call of ExprCall yields a value) has at most D
\* nested additions: the call built at most D levels, the text nests
\* parentheses at most D deep and holds at most 2^D literals and 2^D - 1
\* additions; with D = 0 it is a single literal.
C8_DepthBoundRespected ==
    e_pc = "returned" =>
        /\ e_out.levels <= e_depth
        /\ ParenDepth(e_out.expr) <= e_depth
        /\ Len(Literals(e_out.expr)) <= Pow2(e_depth)
        /\ CountChar(e_out.expr, "+") = Len(Literals(e_out.expr)) - 1
        /\ (e_depth = 0 => AllDigits(e_out.expr) /\ e_out.levels = 0)

\* gen_expr has returned an expression that uses the whole depth bound
C8_Witness ==
    /\ e_pc = "returned"
    /\ e_depth = GenDepth
    /\ e_out.levels = e_depth
    /\ ParenDepth(e_out.expr) = e_depth

----------------------------------------------------------------------------
(* C4 *)

\* an invocation of the subject tool has exited non-zero
Failed == \E i \in 1..Len(invocations) : invocations[i].exited /\ invocations[i].rc # 0

\* C4: once one invocation has exited non-zero the Runner makes no further
\* invocation, in this run or a later one, never prints the result line, and
\* the process has ended in error.
C4_FailureAborts ==
    /\ [](Failed =>
            /\ invocations[Len(invocations)].rc # 0
            /\ child = {}
            /\ stdout = <<>>
            /\ b_pc = "exited"
            /\ exit_status.code # 0)
    /\ [][Failed => invocations' = invocations /\ stdout' = stdout]_vars

\* the first invocation of the first of two runs failed with samples still to go
C4_Witness ==
    /\ Failed
    /\ Len(invocations) = 1
    /\ Len(b_samples) >= 2
    /\ runs >= 2
    /\ b_pc = "exited"

----------------------------------------------------------------------------
(* C5 *)

\* no configured directory holds a file matching the sample suffix
SampleSetEmpty ==
    \A i \in 1..Len(dirs) :
        LET d == b_fs[dirs[i]]
        IN  d.exists => \A n \in DOMAIN d.files : ~EndsWith(n, Suffix)

ConfigurationError == ~curlee_exists \/ SampleSetEmpty

\* C5: if the subject-tool path does not exist or the discovered SampleSet is
\* empty, the Runner ends with a non-zero exit and a message, without a
\* traceback, before any invocation and before any timing: it never enters
\* the run loop, makes no invocation and prints no result.
C5_ConfigurationErrorFailsFast ==
    ConfigurationError =>
        /\ b_pc \in {"start", "exited"}
        /\ invocations = <<>> /\ child = {} /\ clock = 0 /\ stdout = <<>>
        /\ (b_pc = "exited" =>
              /\ exit_status.code # 0
              /\ exit_status.message \in {"curlee binary not found", "no samples found"}
              /\ ~exit_status.traceback
              /\ (curlee_exists => exit_status.message = "no samples found"))

\* the Runner has ended on an empty SampleSet, with the binary in place
C5_Witness ==
    /\ b_pc = "exited"
    /\ curlee_exists
    /\ SampleSetEmpty
    /\ Len(dirs) >= 1
    /\ exit_status.message = "no samples found"

----------------------------------------------------------------------------
(* C6 *)

\* S is the SampleSet of the directories ds: for each directory in the order
\* given, its matching files, in strictly increasing lexicographic order
RECURSIVE IsSampleSet(_, _)
IsSampleSet(S, ds) ==
    IF Len(ds) = 0 THEN Len(S) = 0
    ELSE LET d    == b_fs[ds[1]]
             here == IF d.exists THEN {n \in DOMAIN d.files : EndsWith(n, Suffix)} ELSE {}
             k    == Cardinality(here)
         IN  /\ Len(S) >= k
             /\ \A i \in 1..k : S[i].dir = ds[1] /\ S[i].name \in here
             /\ \A i \in 1..(k - 1) : StrLess(S[i].name, S[i + 1].name)
             /\ IsSampleSet(SubSeq(S, k + 1, Len(S)), Tail(ds))

\* the k-th invocation is of the sample the k-th place of R passes over S takes
InOrder(k, S) ==
    /\ invocations[k].run = ((k - 1) \div Len(S)) + 1
    /\ invocations[k].argv = <<"check", S[((k - 1) % Len(S)) + 1]>>

\* C6: with R >= 1 runs and every invocation succeeding, the Runner invokes
\* the tool once per sample per run in SampleSet order, each invocation
\* starting with none in flight, R x |SampleSet| invocations in all before
\* the result is printed.
C6_OncePerSamplePerRunInOrder ==
    /\ Cardinality(child) <= 1
    /\ (b_pc \notin {"start", "idle"} /\ curlee_exists => IsSampleSet(b_samples, dirs))
    /\ \A k \in 1..Len(invocations) :
          /\ invocations[k].before = 0
          /\ (~Failed => InOrder(k, b_samples))
          /\ (k < Len(invocations) => invocations[k].exited)
    /\ (stdout # <<>> =>
          /\ runs >= 1
          /\ Len(invocations) = runs * Len(b_samples)
          /\ \A k \in 1..Len(invocations) : invocations[k].exited /\ invocations[k].rc = 0
          /\ stdout = <<[samples |-> Len(b_samples), runs |-> runs, avg |-> <<total, runs>>]>>)
    /\ (b_pc = "exited" /\ ~Failed /\ ~ConfigurationError /\ runs >= 1 => stdout # <<>>)

\* two runs over the samples of two directories, the second-sorting directory
\* configured first, have been reported
C6_Witness ==
    /\ stdout # <<>>
    /\ runs = 2
    /\ dirs = <<MoreDir, RunDir>>
    /\ Len(b_samples) = 3
    /\ Len(invocations) = 6

----------------------------------------------------------------------------
(* C7 *)

\* C7: two Generator runs with the same seed and count draw the same random
\* values in the same order and write the same sample files with the same
\* contents and the same corpus file, whatever the directory and the corpus
\* path held before.
C7_Deterministic ==
    \A i, j \in 1..Len(history) :
        history[i].seed = history[j].seed /\ history[i].count = history[j].count =>
            /\ history[i].draws = history[j].draws
            /\ history[i].written = history[j].written
            /\ history[i].corpus = history[j].corpus

\* two finished runs of the same seed and count >= 1, the second over the
\* files the first left
C7_Witness ==
    /\ Len(history) >= 2
    /\ history[1].seed = history[2].seed
    /\ history[1].count = history[2].count
    /\ history[1].count >= 1
    /\ history[1].before # history[2].before
    /\ Len(history[2].draws) > 1

----------------------------------------------------------------------------
(* C9 *)

OutDir == "out"

\* what the Runner's discovery finds in the output directory
Discovered == iter_samples((OutDir :> fs), <<OutDir>>)

\* the number of programs a corpus text holds
ProgramCount(t) == CountLines(t, FnLine)

LargestCount ==
    SetMax({0} \cup {history[k].count : k \in 1..Len(history)})

\* a step keeps every file of the directory, and changes none but the one it writes
KeepsOtherFiles ==
    /\ fs.exists => fs'.exists
    /\ \A n \in DOMAIN fs.files :
          /\ n \in DOMAIN fs'.files
          /\ (fs'.files[n] # fs.files[n] =>
                /\ Len(written') = Len(written) + 1
                /\ written'[Len(written')].name = n)

\* C9: the Generator never deletes or truncates a file it does not write in the
\* current run. After a run with count N1 and then a run with count N2 < N1
\* into the same directory, the files of indices N2+1..N1 of the first run are
\* still there unchanged, while the corpus declares and holds N2 programs;
\* discovery over a directory that held no sample file before the runs yields
\* as many samples as the largest count run so far, N1 for the first two runs.
C9_StaleSamplesSurvive ==
    /\ [][KeepsOtherFiles]_vars
    /\ [](\A k \in 1..(Len(history) - 1) :
            LET first  == history[k]
                second == history[k + 1]
            IN  (Len(history) = k + 1 /\ g_pc = "idle" /\ second.count < first.count) =>
                  /\ \A i \in (second.count + 1)..first.count :
                        /\ first.written[i].name \in DOMAIN fs.files
                        /\ fs.files[first.written[i].name] = first.written[i].text
                  /\ DeclaredCount(training) = second.count
                  /\ ProgramCount(training) = second.count
                  /\ Len(Discovered) = LargestCount
                  /\ (k = 1 => Len(Discovered) = first.count))

\* a run of two samples, then a run of one, both finished
C9_Witness ==
    /\ Len(history) = 2
    /\ g_pc = "idle"
    /\ history[1].count = 2
    /\ history[2].count = 1
    /\ history[1].seed # history[2].seed
    /\ Len(Discovered) = 2
    /\ ProgramCount(training) = 1

----------------------------------------------------------------------------
(* C10 *)

\* C10: with run count 0, the binary in place and a non-empty SampleSet, the
\* Runner makes no invocation, fails dividing by zero and ends in error
\* without a result line, instead of exiting 0.
C10_ZeroRunsDividesByZero ==
    (runs = 0 /\ ~ConfigurationError) =>
        /\ invocations = <<>>
        /\ stdout = <<>>
        /\ (b_pc = "exited" =>
              /\ exit_status = Uncaught("ZeroDivisionError")
              /\ exit_status.code # 0)

\* the Runner has ended on the division, two samples discovered
C10_Witness ==
    /\ runs = 0
    /\ b_pc = "exited"
    /\ Len(b_samples) >= 2
    /\ exit_status.message = "ZeroDivisionError"

====
